---- MODULE Spec2Model ----
(***************************************************************************)
(* Model of the crawl controller (SeleniumCrawler.start_crawl) and of the  *)
(* analysis call (EnhancedAnalyzer.analyze_and_generate).                  *)
(*                                                                         *)
(* A URL is a sequence of tokens: the scheme token, the host tokens, the   *)
(* path tokens and an optional query/fragment token.  The string           *)
(* operations of the code (startswith, lower, endswith, substring test,    *)
(* urlparse().netloc) are computed on the token sequence.                  *)
(***************************************************************************)
EXTENDS Integers, Sequences, FiniteSets, TLC

\* ------------------------------------------------------------------ bounds
MaxPagesBound == 2
MaxDepthBound == 1
MaxLinks == 2
MaxElems == 1

\* ------------------------------------------------------------ URL strings
HttpSchemes == {"http://", "https://"}
HostTokens == {"shop", ".com", "evil", "other", ".org"}

NoHref == << >>
\* an anchor whose get_attribute("href") raises
StaleLink == <<"stale">>
Home == <<"https://", "shop", ".com", "/">>
PageA == <<"https://", "shop", ".com", "/a">>
PageB == <<"https://", "evil", "shop", ".com", "/b">>
AssetPdf == <<"https://", "shop", ".com", "/doc", ".PDF">>
External == <<"https://", "other", ".org", "/">>
MailTo == <<"mailto:", "shop", ".com">>

StartUrls == {Home, AssetPdf, MailTo}
\* what an anchor of a loaded page may carry (a link back to an already
\* visited page is PageA or PageB found again)
LinkPool == {PageA, PageB, AssetPdf, External, StaleLink}

SeqUpTo(S, n) == UNION {[1..k -> S] : k \in 0..n}

\* str.lower() on one token
LowerTok(t) ==
  CASE t = ".PDF" -> ".pdf"
    [] t = ".JS" -> ".js"
    [] OTHER -> t

\* str.lower()
Lower(url) == [i \in 1..Len(url) |-> LowerTok(url[i])]

\* str.endswith(ext)
EndsWith(url, ext) == Len(url) > 0 /\ url[Len(url)] = ext

\* str.startswith(('http://', 'https://'))
StartsWithHttp(url) == Len(url) > 0 /\ url[1] \in HttpSchemes

\* number of host tokens that follow the "//" of the scheme token
RECURSIVE HostLen(_, _)
HostLen(url, i) ==
  IF i > Len(url) \/ url[i] \notin HostTokens THEN 0
  ELSE 1 + HostLen(url, i + 1)

\* urllib.parse.urlparse(url).netloc: the authority after "scheme://",
\* empty when the URL has no "//" (mailto:, the empty string)
extract_domain(url) ==
  IF Len(url) > 0 /\ url[1] \in HttpSchemes
  THEN SubSeq(url, 2, 1 + HostLen(url, 2))
  ELSE << >>

\* Python's "a in b" on strings: a is a contiguous part of b
Contains(b, a) ==
  \E k \in 0..(Len(b) - Len(a)) : SubSeq(b, k + 1, k + Len(a)) = a

excluded_extensions ==
  <<".pdf", ".jpg", ".jpeg", ".png", ".gif", ".css", ".js", ".ico">>

should_crawl_url_novisited(url, dom, visited) ==
  IF ~Contains(extract_domain(url), dom) THEN FALSE
  ELSE IF ~StartsWithHttp(url) THEN FALSE
  ELSE IF \E k \in 1..Len(excluded_extensions) :
            EndsWith(Lower(url), excluded_extensions[k]) THEN FALSE
  ELSE TRUE

should_crawl_url(url, dom, visited) ==
  IF url \in visited THEN FALSE
  ELSE IF ~Contains(extract_domain(url), dom) THEN FALSE
  ELSE IF ~StartsWithHttp(url) THEN FALSE
  ELSE IF \E k \in 1..Len(excluded_extensions) :
            EndsWith(Lower(url), excluded_extensions[k]) THEN FALSE
  ELSE TRUE

\* ------------------------------------------------------------------ state
VARIABLES
  mode,                  \* which call is running: "crawl" or "analyze"
  pc,                    \* position in the running call
  max_pages, max_depth,  \* config crawler.max_pages, crawler.max_depth
  start_url,             \* argument of start_crawl
  base_url, domain, visited_urls, queue,      \* SeleniumCrawler fields
  driver,                \* self.driver: "None" or the browser it refers to
  sessions,              \* browser -> "none" | "open" | "quit"
  quit_calls,            \* number of driver.quit() calls
  all_elements_data, current_depth, pages_visited, depth_urls,
  urls_at_current_depth, url_idx,             \* locals of start_crawl
  setup_failed,          \* setup_driver raised
  result,                \* "none" | "returned" | "error_dict" | "raised"
  loads,                 \* history: one record per driver.get(url)
  arg,                   \* argument of a call of one of the pure functions,
                         \* or the site a crawl is served, << >> when free
  ret                    \* its return value, NotCalled before the call

vars == <<mode, pc, max_pages, max_depth, start_url, base_url, domain,
          visited_urls, queue, driver, sessions, quit_calls,
          all_elements_data, current_depth, pages_visited, depth_urls,
          urls_at_current_depth, url_idx, setup_failed, result, loads,
          arg, ret>>

\* what no step of start_crawl or analyze_and_generate assigns
config_vars == <<mode, max_pages, max_depth, start_url, arg, ret>>
crawl_locals == <<all_elements_data, current_depth, pages_visited,
                  depth_urls, urls_at_current_depth, url_idx>>

Browsers == {"chrome", "firefox"}
Depths == 0..(MaxDepthBound + 2)

NotCalled == << >>

\* SeleniumCrawler.__init__ and EnhancedAnalyzer.__init__
Constructed ==
  /\ pc = "idle"
  /\ base_url = << >>
  /\ domain = << >>
  /\ visited_urls = {}
  /\ queue = << >>
  /\ driver = "None"
  /\ sessions = [b \in Browsers |-> "none"]
  /\ quit_calls = 0
  /\ all_elements_data = << >>
  /\ current_depth = 0
  /\ pages_visited = 0
  /\ depth_urls = [d \in Depths |-> << >>]
  /\ urls_at_current_depth = << >>
  /\ url_idx = 0
  /\ setup_failed = FALSE
  /\ result = "none"
  /\ loads = << >>

\* a call of a pure function: the crawler and the analyzer are left alone
object_vars == <<pc, max_pages, max_depth, start_url, base_url, domain,
                 visited_urls, queue, driver, sessions, quit_calls,
                 all_elements_data, current_depth, pages_visited, depth_urls,
                 urls_at_current_depth, url_idx, setup_failed, result, loads>>

Init ==
  /\ mode \in {"crawl", "analyze"}
  /\ arg = << >>
  /\ ret = NotCalled
  /\ pc = "idle"
  /\ max_pages \in 0..MaxPagesBound
  /\ max_depth \in 0..MaxDepthBound
  /\ start_url \in StartUrls
  /\ base_url = << >>
  /\ domain = << >>
  /\ visited_urls = {}
  /\ queue = << >>
  /\ driver = "None"
  /\ sessions = [b \in Browsers |-> "none"]
  /\ quit_calls = 0
  /\ all_elements_data = << >>
  /\ current_depth = 0
  /\ pages_visited = 0
  /\ depth_urls = [d \in Depths |-> << >>]
  /\ urls_at_current_depth = << >>
  /\ url_idx = 0
  /\ setup_failed = FALSE
  /\ result = "none"
  /\ loads = << >>

\* ------------------------------------------------------------ start_crawl
\* lines 119-122: the assignments before the try block
StartCrawl ==
  /\ mode = "crawl" /\ pc = "idle"
  /\ base_url' = start_url
  /\ domain' = extract_domain(start_url)
  /\ visited_urls' = {}
  /\ queue' = <<start_url>>
  /\ pc' = "setup"
  /\ UNCHANGED <<config_vars, driver, sessions, quit_calls, crawl_locals,
                 setup_failed, result, loads>>

\* a handler that swallows the setup error and returns the (empty) list
CrawlSetupRaise_swallow(created) ==
  /\ driver' = IF created THEN "chrome" ELSE driver
  /\ sessions' = IF created THEN [sessions EXCEPT !["chrome"] = "open"]
                 ELSE sessions
  /\ setup_failed' = TRUE
  /\ result' = "returned"
  /\ pc' = "finally"
  /\ UNCHANGED <<config_vars, base_url, domain, visited_urls, queue,
                 quit_calls, crawl_locals, loads>>

\* SeleniumCrawler.setup_driver raising: before webdriver.Chrome returns
\* (created = FALSE) or in set_page_load_timeout (created = TRUE).  The
\* exception leaves the try block of start_crawl for its finally clause.
CrawlSetupRaise(created) ==
  /\ driver' = IF created THEN "chrome" ELSE driver
  /\ sessions' = IF created THEN [sessions EXCEPT !["chrome"] = "open"]
                 ELSE sessions
  /\ setup_failed' = TRUE
  /\ pc' = "finally"
  /\ UNCHANGED <<config_vars, base_url, domain, visited_urls, queue,
                 quit_calls, crawl_locals, result, loads>>

\* setup_driver returning, then lines 127-136
CrawlSetupOk ==
  /\ driver' = "chrome"
  /\ sessions' = [sessions EXCEPT !["chrome"] = "open"]
  /\ all_elements_data' = << >>
  /\ current_depth' = 0
  /\ pages_visited' = 0
  /\ depth_urls' = [d \in Depths |-> IF d = 0 THEN <<start_url>> ELSE << >>]
  /\ pc' = "while"
  /\ UNCHANGED <<config_vars, base_url, domain, visited_urls, queue,
                 quit_calls, urls_at_current_depth, url_idx, setup_failed,
                 result, loads>>

CrawlSetup ==
  /\ mode = "crawl" /\ pc = "setup"
  /\ \/ CrawlSetupOk
     \/ \E created \in BOOLEAN : CrawlSetupRaise(created)

\* a depth of 0 taken as "not set" and replaced by the default depth
WhileGuard_zero_default ==
  /\ queue # << >>
  /\ pages_visited < max_pages
  /\ current_depth <= (IF max_depth = 0 THEN 2 ELSE max_depth)

\* an off-by-one depth bound
WhileGuard_plus1 ==
  queue # << >> /\ pages_visited < max_pages /\ current_depth <= max_depth + 1

\* line 138
WhileGuard ==
  queue # << >> /\ pages_visited < max_pages /\ current_depth <= max_depth

\* a for loop that walks the level from its last URL to its first
WhileEnter_reversed ==
  /\ mode = "crawl" /\ pc = "while"
  /\ WhileGuard
  /\ urls_at_current_depth' =
       [i \in 1..Len(depth_urls[current_depth]) |->
          depth_urls[current_depth][Len(depth_urls[current_depth]) + 1 - i]]
  /\ depth_urls' = [depth_urls EXCEPT ![current_depth + 1] = << >>]
  /\ url_idx' = 1
  /\ pc' = "for"
  /\ UNCHANGED <<config_vars, base_url, domain, visited_urls, queue, driver,
                 sessions, quit_calls, all_elements_data, current_depth,
                 pages_visited, setup_failed, result, loads>>

\* lines 138-141: enter one depth level
WhileEnter ==
  /\ mode = "crawl" /\ pc = "while"
  /\ WhileGuard
  /\ urls_at_current_depth' = depth_urls[current_depth]
  /\ depth_urls' = [depth_urls EXCEPT ![current_depth + 1] = << >>]
  /\ url_idx' = 1
  /\ pc' = "for"
  /\ UNCHANGED <<config_vars, base_url, domain, visited_urls, queue, driver,
                 sessions, quit_calls, all_elements_data, current_depth,
                 pages_visited, setup_failed, result, loads>>

\* lines 138, 181-182: the loop ends and start_crawl returns the list
WhileExit ==
  /\ mode = "crawl" /\ pc = "while"
  /\ ~WhileGuard
  /\ result' = "returned"
  /\ pc' = "finally"
  /\ UNCHANGED <<config_vars, base_url, domain, visited_urls, queue, driver,
                 sessions, quit_calls, crawl_locals, setup_failed, loads>>

\* a level that ends without the increment of current_depth
LevelDone_stay ==
  /\ mode = "crawl" /\ pc = "for"
  /\ url_idx > Len(urls_at_current_depth)
  /\ pc' = "while"
  /\ UNCHANGED <<config_vars, base_url, domain, visited_urls, queue, driver,
                 sessions, quit_calls, all_elements_data, pages_visited,
                 depth_urls, urls_at_current_depth, url_idx, setup_failed,
                 result, loads, current_depth>>

\* lines 143, 179: the for loop is exhausted, move to the next depth
LevelDone ==
  /\ mode = "crawl" /\ pc = "for"
  /\ url_idx > Len(urls_at_current_depth)
  /\ current_depth' = current_depth + 1
  /\ pc' = "while"
  /\ UNCHANGED <<config_vars, base_url, domain, visited_urls, queue, driver,
                 sessions, quit_calls, all_elements_data, pages_visited,
                 depth_urls, urls_at_current_depth, url_idx, setup_failed,
                 result, loads>>

\* lines 144-145: continue
SkipUrl ==
  /\ mode = "crawl" /\ pc = "for"
  /\ url_idx <= Len(urls_at_current_depth)
  /\ LET url == urls_at_current_depth[url_idx] IN
       url \in visited_urls \/ ~should_crawl_url(url, domain, visited_urls)
  /\ url_idx' = url_idx + 1
  /\ UNCHANGED <<config_vars, pc, base_url, domain, visited_urls, queue,
                 driver, sessions, quit_calls, all_elements_data,
                 current_depth, pages_visited, depth_urls,
                 urls_at_current_depth, setup_failed, result, loads>>

\* an anchor loop that stops after the first anchor of the page
NewLinks_first(links, i, dom, visited) ==
  IF i > Len(links) \/ i > 1 THEN << >>
  ELSE IF /\ links[i] # StaleLink
          /\ links[i] # NoHref
          /\ should_crawl_url(links[i], dom, visited)
    THEN <<links[i]>>
  ELSE << >>

\* lines 163-169: the hrefs that are appended to depth_urls[current_depth+1];
\* an anchor whose get_attribute raises is skipped by the inner except
RECURSIVE NewLinks(_, _, _, _)
NewLinks(links, i, dom, visited) ==
  IF i > Len(links) THEN << >>
  ELSE LET href == links[i]
           keep == /\ href # StaleLink
                   /\ href # NoHref
                   /\ should_crawl_url(href, dom, visited)
       IN (IF keep THEN <<href>> ELSE << >>)
            \o NewLinks(links, i + 1, dom, visited)

LoadRecord(url, outcome) ==
  [url |-> url, depth |-> current_depth, outcome |-> outcome]

\* n copies of the record extracted for an element of page url
RECURSIVE Records(_, _)
Records(url, n) == IF n = 0 THEN << >> ELSE <<url>> \o Records(url, n - 1)

\* lines 149-150, 171-176: driver.get(url) raises
PageLoadFails(url) ==
  /\ loads' = Append(loads, LoadRecord(url, "load_failed"))
  /\ UNCHANGED <<visited_urls, pages_visited, all_elements_data, depth_urls>>

\* the anchors are still enumerated after extract_elements raised
PageExtractFails_enqueue(url) ==
  /\ loads' = Append(loads, LoadRecord(url, "extract_failed"))
  /\ visited_urls' = visited_urls \cup {url}
  /\ pages_visited' = pages_visited + 1
  /\ depth_urls' = [depth_urls EXCEPT ![current_depth + 1] =
                      @ \o NewLinks(<<PageA>>, 1, domain, visited_urls')]
  /\ UNCHANGED all_elements_data

\* lines 150-158, 171-176: extract_elements raises
PageExtractFails(url) ==
  /\ loads' = Append(loads, LoadRecord(url, "extract_failed"))
  /\ visited_urls' = visited_urls \cup {url}
  /\ pages_visited' = pages_visited + 1
  /\ UNCHANGED <<all_elements_data, depth_urls>>

\* lines 150-162, 171-176: find_elements(By.TAG_NAME, "a") raises
PageLinksFail(url, n) ==
  /\ loads' = Append(loads, LoadRecord(url, "links_failed"))
  /\ visited_urls' = visited_urls \cup {url}
  /\ pages_visited' = pages_visited + 1
  /\ all_elements_data' = all_elements_data \o Records(url, n)
  /\ UNCHANGED depth_urls

\* lines 150-169: the page is processed to the end
PageOk(url, n, links) ==
  /\ loads' = Append(loads, LoadRecord(url, "ok"))
  /\ visited_urls' = visited_urls \cup {url}
  /\ pages_visited' = pages_visited + 1
  /\ all_elements_data' = all_elements_data \o Records(url, n)
  /\ depth_urls' = [depth_urls EXCEPT ![current_depth + 1] =
                      @ \o NewLinks(links, 1, domain, visited_urls')]

\* find_elements(By.TAG_NAME, "a") on the page just loaded: the anchors of
\* the page in the site that is served when arg holds one, else any anchors
AnchorsOf(url) ==
  IF arg = << >> THEN SeqUpTo(LinkPool, MaxLinks) ELSE {arg[1][url]}

\* an iteration that tests visited_urls only, not should_crawl_url
ProcessPage_unfiltered ==
  /\ mode = "crawl" /\ pc = "for"
  /\ url_idx <= Len(urls_at_current_depth)
  /\ LET url == urls_at_current_depth[url_idx] IN
       /\ url \notin visited_urls
       /\ \/ PageLoadFails(url)
          \/ PageExtractFails(url)
          \/ \E n \in 0..MaxElems : PageLinksFail(url, n)
          \/ \E n \in 0..MaxElems, links \in AnchorsOf(url) :
               PageOk(url, n, links)
  /\ url_idx' = url_idx + 1
  /\ UNCHANGED <<config_vars, pc, base_url, domain, queue, driver, sessions,
                 quit_calls, current_depth, urls_at_current_depth,
                 setup_failed, result>>

\* an iteration that loads the URL although it is in visited_urls
ProcessPage_revisit ==
  /\ mode = "crawl" /\ pc = "for"
  /\ url_idx <= Len(urls_at_current_depth)
  /\ LET url == urls_at_current_depth[url_idx] IN
       /\ should_crawl_url_novisited(url, domain, visited_urls)
       /\ \/ PageLoadFails(url)
          \/ PageExtractFails(url)
          \/ \E n \in 0..MaxElems : PageLinksFail(url, n)
          \/ \E n \in 0..MaxElems, links \in AnchorsOf(url) :
               PageOk(url, n, links)
  /\ url_idx' = url_idx + 1
  /\ UNCHANGED <<config_vars, pc, base_url, domain, queue, driver, sessions,
                 quit_calls, current_depth, urls_at_current_depth,
                 setup_failed, result>>

\* lines 143-176: one iteration of the for loop that loads the page
ProcessPage ==
  /\ mode = "crawl" /\ pc = "for"
  /\ url_idx <= Len(urls_at_current_depth)
  /\ LET url == urls_at_current_depth[url_idx] IN
       /\ ~(url \in visited_urls \/ ~should_crawl_url(url, domain, visited_urls))
       /\ \/ PageLoadFails(url)
          \/ PageExtractFails(url)
          \/ \E n \in 0..MaxElems : PageLinksFail(url, n)
          \/ \E n \in 0..MaxElems, links \in AnchorsOf(url) :
               PageOk(url, n, links)
  /\ url_idx' = url_idx + 1
  /\ UNCHANGED <<config_vars, pc, base_url, domain, queue, driver, sessions,
                 quit_calls, current_depth, urls_at_current_depth,
                 setup_failed, result>>

\* lines 184-186: finally
CrawlFinally ==
  /\ mode = "crawl" /\ pc = "finally"
  /\ IF driver # "None"
     THEN /\ sessions' = [sessions EXCEPT ![driver] = "quit"]
          /\ quit_calls' = quit_calls + 1
     ELSE UNCHANGED <<sessions, quit_calls>>
  /\ result' = IF result = "returned" THEN "returned" ELSE "raised"
  /\ pc' = "done"
  /\ UNCHANGED <<config_vars, base_url, domain, visited_urls, queue, driver,
                 crawl_locals, setup_failed, loads>>

\* ------------------------------------------- EnhancedAnalyzer.setup_driver
SetupOutcomes == {"ok", "fail_before", "fail_after"}

\* "fail_before": the constructor of the browser raises, no session exists;
\* "fail_after": the session is created and assigned to self.driver, then
\* set_page_load_timeout raises.  Firefox is tried only when Chrome raised.
AnalyzerSetupDriver(c, f) ==
  LET s1 == IF c = "fail_before" THEN sessions
            ELSE [sessions EXCEPT !["chrome"] = "open"]
      d1 == IF c = "fail_before" THEN driver ELSE "chrome"
      s2 == IF c = "ok" \/ f = "fail_before" THEN s1
            ELSE [s1 EXCEPT !["firefox"] = "open"]
      d2 == IF c = "ok" \/ f = "fail_before" THEN d1 ELSE "firefox"
  IN [driver |-> d2, sessions |-> s2, raised |-> (c # "ok" /\ f # "ok")]

\* scripts/run_enhanced_analyzer.py line 59: the command-line entry point
\* calls setup_driver itself before it calls analyze_and_generate
CallerSetup ==
  /\ mode = "analyze" /\ pc = "idle"
  /\ \E c \in SetupOutcomes, f \in SetupOutcomes :
       LET r == AnalyzerSetupDriver(c, f) IN
         /\ driver' = r.driver
         /\ sessions' = r.sessions
         /\ setup_failed' = r.raised
         /\ pc' = IF r.raised THEN "aborted" ELSE "ready"
         /\ result' = IF r.raised THEN "raised" ELSE result
  /\ UNCHANGED <<config_vars, base_url, domain, visited_urls, queue,
                 quit_calls, crawl_locals, loads>>

\* lines 618-621: entry of analyze_and_generate
AnalyzeSetup ==
  /\ mode = "analyze" /\ pc \in {"idle", "ready"}
  /\ IF driver = "None"
     THEN \E c \in SetupOutcomes, f \in SetupOutcomes :
            LET r == AnalyzerSetupDriver(c, f) IN
              /\ driver' = r.driver
              /\ sessions' = r.sessions
              /\ setup_failed' = r.raised
              /\ pc' = IF r.raised THEN "except" ELSE "body"
     ELSE /\ pc' = "body"
          /\ UNCHANGED <<driver, sessions, setup_failed>>
  /\ UNCHANGED <<config_vars, base_url, domain, visited_urls, queue,
                 quit_calls, crawl_locals, result, loads>>

\* lines 624-648: get_page (which catches a failing load), the element
\* search, the flows, the script, and the return of the results
AnalyzeBody ==
  /\ mode = "analyze" /\ pc = "body"
  /\ \E outcome \in {"ok", "load_failed"} :
       loads' = Append(loads, LoadRecord(start_url, outcome))
  /\ result' = "returned"
  /\ pc' = "finally"
  /\ UNCHANGED <<config_vars, base_url, domain, visited_urls, queue, driver,
                 sessions, quit_calls, crawl_locals, setup_failed>>

\* a handler that lets the exception leave the call
AnalyzeExcept_reraise ==
  /\ mode = "analyze" /\ pc = "except"
  /\ result' = "raised"
  /\ pc' = "finally"
  /\ UNCHANGED <<config_vars, base_url, domain, visited_urls, queue, driver,
                 sessions, quit_calls, crawl_locals, setup_failed, loads>>

\* lines 650-660: except Exception: return the error dictionary
AnalyzeExcept ==
  /\ mode = "analyze" /\ pc = "except"
  /\ result' = "error_dict"
  /\ pc' = "finally"
  /\ UNCHANGED <<config_vars, base_url, domain, visited_urls, queue, driver,
                 sessions, quit_calls, crawl_locals, setup_failed, loads>>

\* lines 661-665: finally
AnalyzeFinally ==
  /\ mode = "analyze" /\ pc = "finally"
  /\ IF driver # "None"
     THEN /\ sessions' = [sessions EXCEPT ![driver] = "quit"]
          /\ quit_calls' = quit_calls + 1
          /\ driver' = "None"
     ELSE UNCHANGED <<sessions, quit_calls, driver>>
  /\ pc' = "done"
  /\ UNCHANGED <<config_vars, base_url, domain, visited_urls, queue,
                 crawl_locals, setup_failed, result, loads>>

\* ------------------------------------------------------------------ claims
Crawling == mode = "crawl"
Finished == pc = "done"
Acquired == {b \in Browsers : sessions[b] # "none"}

\* C1: at every state of a crawl the number of visited URLs is at most
\* maxPages.
CE_C1 == Crawling => Cardinality(visited_urls) <= max_pages

\* C2: every page load of a crawl happens at a depth between 0 and maxDepth;
\* a load at depth 0 is the start URL and a load at depth d > 0 follows a
\* completed load at depth d - 1.
Thm_C2 ==
  Crawling =>
    \A i \in 1..Len(loads) :
      /\ loads[i].depth \in 0..max_depth
      /\ loads[i].depth = 0 => loads[i].url = start_url
      /\ loads[i].depth > 0 =>
           \E j \in 1..(i - 1) : /\ loads[j].depth = loads[i].depth - 1
                                 /\ loads[j].outcome = "ok"

\* a page was loaded at the deepest allowed level, below the start page,
\* and links were found on it
Wit_C2 ==
  /\ Crawling /\ Finished /\ max_depth >= 1
  /\ \E i \in 1..Len(loads) : loads[i].depth = max_depth
  /\ depth_urls[max_depth + 1] # << >>

\* C3 as stated: with maxDepth = 0 nothing is enqueued for depth 1 and only
\* the start URL is visited.
CE_C3 ==
  (Crawling /\ max_depth = 0) =>
    /\ depth_urls[1] = << >>
    /\ visited_urls \subseteq {start_url}

\* C3 amended: with maxDepth = 0 only the start URL is ever loaded or
\* visited (the links of the start page may sit in the frontier of depth 1).
Thm_C3 ==
  (Crawling /\ max_depth = 0) =>
    /\ visited_urls \subseteq {start_url}
    /\ \A i \in 1..Len(loads) : loads[i].url = start_url

\* the crawl with maxDepth = 0 is over, links of the start page were enqueued
Wit_C3 ==
  /\ Crawling /\ Finished /\ max_depth = 0
  /\ visited_urls = {start_url}
  /\ \E k \in 1..Len(depth_urls[1]) : depth_urls[1][k] # start_url

\* C4: the visited set contains every URL for which a load was attempted.
CE_C4 == Crawling => \A i \in 1..Len(loads) : loads[i].url \in visited_urls

\* a step of the crawl that processes one page and fails
PageFailed ==
  /\ Crawling
  /\ Len(loads') = Len(loads) + 1
  /\ loads'[Len(loads')].outcome # "ok"

\* the crawl goes on with the next URL of the level
Continues == pc' = "for" /\ url_idx' = url_idx + 1 /\ result' = "none"

\* C5 as stated: a page that fails at any step adds no element record and
\* no frontier entry, and the crawl goes on.
CE_C5 ==
  [][PageFailed =>
       /\ all_elements_data' = all_elements_data
       /\ depth_urls' = depth_urls
       /\ Continues]_vars

\* C5 amended: a page that fails adds no frontier entry and the crawl goes
\* on; it adds no element record when the load or the extraction failed,
\* and only its own records when the enumeration of the anchors failed.
Thm_C5 ==
  [][PageFailed =>
       /\ depth_urls' = depth_urls
       /\ Continues
       /\ loads'[Len(loads')].outcome \in {"load_failed", "extract_failed"}
            => all_elements_data' = all_elements_data
       /\ loads'[Len(loads')].outcome = "links_failed"
            => \E n \in 0..MaxElems :
                 all_elements_data' =
                   all_elements_data \o Records(loads'[Len(loads')].url, n)]_vars

\* a page failed in the anchor enumeration after its records were kept, and
\* the next URL of the same level was loaded afterwards
Wit_C5 ==
  /\ Crawling
  /\ \E i \in 1..(Len(loads) - 1) :
       /\ loads[i].outcome = "links_failed"
       /\ \E k \in 1..Len(all_elements_data) :
            all_elements_data[k] = loads[i].url
       /\ loads[i + 1].depth = loads[i].depth

\* C6: no URL is loaded twice in one run.
CE_C6 ==
  Crawling =>
    \A i, j \in 1..Len(loads) : i # j => loads[i].url # loads[j].url

\* C7: when the call is over, at most one session was acquired and every
\* acquired session was quit, by exactly one quit call.
CE_C7 ==
  Finished =>
    /\ Cardinality(Acquired) <= 1
    /\ \A b \in Acquired : sessions[b] = "quit"
    /\ quit_calls = Cardinality(Acquired)

\* C8 as stated: after a failed driver setup start_crawl still returns the
\* list of results.
CE_C8 == (Crawling /\ Finished /\ setup_failed) => result = "returned"

\* C8 amended: after a failed driver setup start_crawl raises; no page was
\* loaded and no list is returned.
Thm_C8 ==
  (Crawling /\ setup_failed) =>
    /\ loads = << >> /\ all_elements_data = << >> /\ visited_urls = {}
    /\ result # "returned"
    /\ Finished => result = "raised"

Wit_C8 == Crawling /\ Finished /\ setup_failed /\ result = "raised"

\* C9 as stated: after a failed setup neither call returns a value and no
\* session is left open.
CE_C9 ==
  (Finished /\ setup_failed) =>
    /\ result = "raised"
    /\ \A b \in Browsers : sessions[b] # "open"

\* C9 amended: after a failed setup start_crawl raises and its session, if
\* one was created, is quit; analyze_and_generate returns the error record
\* without loading a page, and the driver it holds (the session created
\* last) is quit and reset.
Thm_C9 ==
  (Finished /\ setup_failed) =>
    /\ Crawling => /\ result = "raised"
                   /\ sessions["chrome"] # "open"
    /\ ~Crawling => /\ result = "error_dict"
                    /\ loads = << >>
                    /\ driver = "None"
                    /\ sessions["firefox"] # "open"
                    /\ sessions["firefox"] = "none"
                         => sessions["chrome"] # "open"

\* the analysis call ended with the error record after a session had been
\* created and quit
Wit_C9 ==
  /\ ~Crawling /\ Finished /\ setup_failed
  /\ result = "error_dict"
  /\ quit_calls = 1

\* C10: should_crawl_url is false for every URL of the visited set.
Thm_C10 ==
  \A u \in visited_urls : ~should_crawl_url(u, domain, visited_urls)

\* a visited URL that passes the three other filters
Wit_C10 ==
  \E u \in visited_urls : should_crawl_url(u, domain, {})

Next ==
  \/ StartCrawl
  \/ CrawlSetup
  \/ WhileEnter
  \/ WhileExit
  \/ LevelDone
  \/ SkipUrl
  \/ ProcessPage
  \/ CrawlFinally
  \/ CallerSetup
  \/ AnalyzeSetup
  \/ AnalyzeBody
  \/ AnalyzeExcept
  \/ AnalyzeFinally

Spec == Init /\ [][Next]_vars

\* a pure function was called: ret holds its value
Called == ret # NotCalled
Ret == ret[1]

\* ------------------------------------------- should_crawl_url, called alone
QueryTokens == {"?q=1", "#top", "?f=doc"}
Schemes == {<<"https://">>, <<"http://">>}
Hosts == {<<"shop", ".com">>, <<"evil", "shop", ".com">>, <<"other", ".org">>}
Paths == {<<"/">>, <<"/doc">>}
Extensions == {<< >>, <<".pdf">>, <<".PDF">>, <<".html">>}
Tails == {<< >>, <<"?q=1">>, <<"#top">>, <<"?f=doc", ".pdf">>}

UrlUniverse ==
  {s \o h \o p \o e \o t :
     s \in Schemes, h \in Hosts, p \in Paths, e \in Extensions, t \in Tails}
    \cup {MailTo, NoHref}

\* the crawler state should_crawl_url reads, and its argument
FilterInputs ==
  UNION {{[url |-> u, domain |-> <<"shop", ".com">>, visited |-> v] :
            v \in {{}, {PageA}, {PageA, u}}} : u \in UrlUniverse}

InitFilter ==
  /\ mode = "filter"
  /\ Constructed
  /\ max_pages = 0 /\ max_depth = 0 /\ start_url = Home
  /\ arg \in FilterInputs
  /\ ret = NotCalled

CallShouldCrawl ==
  /\ mode = "filter" /\ ~Called
  /\ ret' = <<should_crawl_url(arg.url, arg.domain, arg.visited)>>
  /\ UNCHANGED <<mode, arg, object_vars>>

NextFilter == CallShouldCrawl

SpecFilter == InitFilter /\ [][NextFilter]_vars

\* the path component of a URL: what follows the host, up to the query
\* string or the fragment
RECURSIVE PathLen(_, _)
PathLen(url, i) ==
  IF i > Len(url) \/ url[i] \in QueryTokens THEN 0
  ELSE 1 + PathLen(url, i + 1)

PathOf(url) ==
  LET first == 2 + HostLen(url, 2)
  IN SubSeq(url, first, first + PathLen(url, first) - 1)

PathEndsDenylisted(url) ==
  \E k \in 1..Len(excluded_extensions) :
    EndsWith(Lower(PathOf(url)), excluded_extensions[k])

\* C11: for an unvisited, in-domain http/https URL should_crawl_url is
\* false exactly when the path component ends with a denylisted extension,
\* whatever query string or fragment follows the path.
CE_C11 ==
  (/\ mode = "filter" /\ Called
   /\ arg.url \notin arg.visited
   /\ Contains(extract_domain(arg.url), arg.domain)
   /\ StartsWithHttp(arg.url))
    => (Ret = FALSE <=> PathEndsDenylisted(arg.url))

\* ------------------------------------------------- the element classifiers
\* An attribute that is absent (None) or empty is "": both are falsy.  A
\* class attribute is the sequence of the pieces of its string, " " being
\* white space.  A label is the sequence of the pieces of the returned
\* string, so that "input_" + input_type is <<"input_", input_type>>.
LowerPiece(t) ==
  CASE t = "BTN" -> "btn"
    [] t = "Log In" -> "log in"
    [] t = "Sign In" -> "sign in"
    [] t = "Password" -> "password"
    [] t = "Submit" -> "submit"
    [] t = "Email" -> "email"
    [] t = "Cancel" -> "cancel"
    [] t = "Home" -> "home"
    [] t = "Next" -> "next"
    [] t = "Save" -> "save"
    [] OTHER -> t

\* keyword in s.lower(), for a string s given by its pieces
HasKeyword(str, keywords) ==
  \E i \in 1..Len(str) : LowerPiece(str[i]) \in keywords

Tags == {"a", "button", "input", "select", "textarea", "form", "div",
         "span", "img", "p"}
RoleValues == {"", "button", "link", "checkbox", "radio", "tab", "menu",
               "menuitem", "combobox", "listbox", "option", "slider",
               "switch", "presentation"}
TypeValues == {"", "text", "password", "submit", "date"}
ClassValues == {<< >>, <<"BTN", " ", "primary">>, <<"ng-", "scope", " ", "link">>,
                <<"dropdown">>, <<"primary">>}
ParentTags == {"a", "div"}

ElementUniverse ==
  [tag : Tags, role : RoleValues, type : TypeValues, class : ClassValues,
   parent : ParentTags]

\* ElementParser._categorize_element
categorize_element_parser(e) ==
  IF e.role # "" /\ e.role \in {"button", "link", "checkbox", "radio", "tab",
                                "menu", "menuitem", "combobox", "listbox",
                                "option", "slider", "switch"}
  THEN <<e.role>>
  ELSE IF e.tag = "a" THEN <<"link">>
  ELSE IF e.tag = "button" THEN <<"button">>
  ELSE IF e.tag = "input" THEN
    IF e.type \in {"checkbox", "radio", "submit", "button"} THEN <<e.type>>
    ELSE IF e.type \in {"text", "email", "password", "number", "tel", "url",
                        "search"} THEN <<"input_field">>
    ELSE <<"input_", IF e.type # "" THEN e.type ELSE "text">>
  ELSE IF e.tag = "select" THEN <<"dropdown">>
  ELSE IF e.tag = "textarea" THEN <<"text_area">>
  ELSE IF e.tag = "form" THEN <<"form">>
  ELSE IF e.tag \in {"div", "span"}
          /\ HasKeyword(e.class, {"button", "btn", "link", "clickable"})
  THEN <<"pseudo_button">>
  ELSE IF e.tag \in {"i", "svg", "img"} THEN
    IF e.parent = "a" THEN <<"icon_link">> ELSE <<"icon">>
  ELSE <<"other">>

\* EnhancedAnalyzer._categorize_element
categorize_element_enhanced(e) ==
  IF e.role # "" /\ e.role \in {"button", "link", "checkbox", "radio", "tab",
                                "menuitem"}
  THEN <<e.role>>
  ELSE IF e.tag = "a" THEN <<"link">>
  ELSE IF e.tag = "button" THEN <<"button">>
  ELSE IF e.tag = "input" THEN
    IF e.type \in {"checkbox", "radio", "submit", "button"} THEN <<e.type>>
    ELSE IF e.type \in {"text", "email", "password", "number", "tel", "url",
                        "search"} THEN <<"input_field">>
    ELSE <<"input_", IF e.type # "" THEN e.type ELSE "text">>
  ELSE IF e.tag = "select" THEN <<"dropdown">>
  ELSE IF e.tag = "textarea" THEN <<"text_area">>
  ELSE IF HasKeyword(e.class, {"button", "btn"}) THEN <<"pseudo_button">>
  ELSE IF HasKeyword(e.class, {"dropdown", "select"}) THEN <<"pseudo_dropdown">>
  ELSE <<"other">>

\* HtmlAnalyzer._categorize_element
categorize_element_html(e) ==
  IF e.role # "" /\ e.role \in {"button", "link", "checkbox", "radio"}
  THEN <<e.role>>
  ELSE IF e.tag = "a" THEN <<"link">>
  ELSE IF e.tag = "button" THEN <<"button">>
  ELSE IF e.tag = "input" THEN
    IF e.type \in {"checkbox", "radio", "submit", "button"} THEN <<e.type>>
    ELSE IF e.type \in {"text", "email", "password", "number", "tel", "url",
                        "search"} THEN <<"input_field">>
    ELSE IF e.type # "" THEN <<"input_", e.type>> ELSE <<"input">>
  ELSE IF e.tag = "select" THEN <<"dropdown">>
  ELSE IF e.tag = "textarea" THEN <<"text_area">>
  ELSE IF e.tag = "form" THEN <<"form">>
  ELSE <<"other">>

Classifiers == {"ElementParser", "EnhancedAnalyzer", "HtmlAnalyzer"}

InitClassify ==
  /\ mode = "classify"
  /\ Constructed
  /\ max_pages = 0 /\ max_depth = 0 /\ start_url = Home
  /\ arg \in [classifier : Classifiers, element : ElementUniverse]
  /\ ret = NotCalled

CallCategorize ==
  /\ mode = "classify" /\ ~Called
  /\ ret' = << CASE arg.classifier = "ElementParser" ->
                      categorize_element_parser(arg.element)
                 [] arg.classifier = "EnhancedAnalyzer" ->
                      categorize_element_enhanced(arg.element)
                 [] OTHER -> categorize_element_html(arg.element) >>
  /\ UNCHANGED <<mode, arg, object_vars>>

NextClassify == CallCategorize

SpecClassify == InitClassify /\ [][NextClassify]_vars

RecognizedRoles ==
  {"button", "link", "checkbox", "radio", "tab", "menu", "menuitem",
   "combobox", "listbox", "option", "slider", "switch"}

\* C12: with a recognized ARIA role the crawl extractor's classifier and the
\* analyzer's classifier return the role verbatim, whatever the tag and the
\* class are.
CE_C12 ==
  (/\ mode = "classify" /\ Called
   /\ arg.classifier \in {"ElementParser", "EnhancedAnalyzer"}
   /\ arg.element.role \in RecognizedRoles)
    => Ret = <<arg.element.role>>

DocumentedLabels ==
  {<<r>> : r \in RecognizedRoles}
    \cup {<<l>> : l \in {"link", "button", "dropdown", "text_area", "form",
                         "checkbox", "radio", "submit", "input_field",
                         "pseudo_button", "icon_link", "icon", "other"}}
    \cup {<<"input_", t>> : t \in (TypeValues \ {""}) \cup {"text"}}

\* C13: every classifier returns a label of the documented set, and
\* input_text for an input without a type attribute (and without a
\* recognized role).
CE_C13 ==
  (mode = "classify" /\ Called) =>
    /\ Ret \in DocumentedLabels
    /\ (/\ arg.element.tag = "input" /\ arg.element.type = ""
        /\ arg.element.role \notin RecognizedRoles)
         => Ret = <<"input_", "text">>

\* ------------------------------------ EnhancedAnalyzer._generate_css_selector
\* A text or a class attribute is the sequence of its characters or pieces,
\* " " being white space; the selector is the sequence of the pieces of the
\* formatted string.
TextLimit == 50

\* the number of leading pieces of str that are not white space
RECURSIVE WordLen(_)
WordLen(str) ==
  IF str = << >> \/ Head(str) = " " THEN 0 ELSE 1 + WordLen(Tail(str))

\* str.split()
RECURSIVE Split(_)
Split(str) ==
  IF str = << >> THEN << >>
  ELSE IF Head(str) = " " THEN Split(Tail(str))
  ELSE <<SubSeq(str, 1, WordLen(str))>>
         \o Split(SubSeq(str, WordLen(str) + 1, Len(str)))

RECURSIVE LStrip(_)
LStrip(str) ==
  IF str # << >> /\ Head(str) = " " THEN LStrip(Tail(str)) ELSE str

RECURSIVE RStrip(_)
RStrip(str) ==
  IF str # << >> /\ str[Len(str)] = " "
  THEN RStrip(SubSeq(str, 1, Len(str) - 1)) ELSE str

\* str.strip()
Strip(str) == RStrip(LStrip(str))

\* text.replace("'", "\\'")
EscapeQuotes(str) ==
  [i \in 1..Len(str) |-> IF str[i] = "'" THEN "\\'" ELSE str[i]]

Xs(n) == [i \in 1..n |-> "x"]

LocatorTags == {"input", "textarea", "button", "div"}
LocatorClasses == {<< >>, <<" ">>, <<"btn", " ", "primary">>,
                   <<"ng-", "scope", " ", "btn">>, <<" ", "ui-", "x">>}
LocatorTexts == {<< >>, <<" ">>, <<" ", "O", "k", " ">>, <<"i", "t", "'", "s">>,
                 Xs(TextLimit - 1), Xs(TextLimit),
                 <<" ">> \o Xs(TextLimit - 1) \o <<" ">>}

LocatorUniverse ==
  [tag : LocatorTags, id : {"", "user"}, data_test : {"", "dt"},
   data_testid : {"", "dti"}, name : {"", "q"}, placeholder : {"", "Search"},
   class : LocatorClasses, text : LocatorTexts]

\* the text rule accepting a text of exactly 50 characters
generate_css_selector_le50(e) ==
  LET words == Split(e.class)
      first_class == IF words # << >> THEN words[1] ELSE << >>
      text == Strip(e.text)
  IN IF e.id # "" THEN <<"#", e.id>>
     ELSE IF e.data_test # "" THEN <<"[data-test='", e.data_test, "']">>
     ELSE IF e.data_testid # "" THEN <<"[data-testid='", e.data_testid, "']">>
     ELSE IF e.name # "" THEN <<e.tag, "[name='", e.name, "']">>
     ELSE IF e.tag \in {"input", "textarea"} /\ e.placeholder # ""
       THEN <<e.tag, "[placeholder='", e.placeholder, "']">>
     ELSE IF /\ e.class # << >>
             /\ first_class # << >>
             /\ first_class[1] \notin {"ng-", "ui-"}
       THEN <<e.tag, ".">> \o first_class
     ELSE IF text # << >> /\ Len(text) <= TextLimit
       THEN <<e.tag, ":contains('">> \o EscapeQuotes(text) \o <<"')">>
     ELSE <<e.tag>>

\* lines 296-337
generate_css_selector(e) ==
  LET words == Split(e.class)
      first_class == IF words # << >> THEN words[1] ELSE << >>
      text == Strip(e.text)
  IN IF e.id # "" THEN <<"#", e.id>>
     ELSE IF e.data_test # "" THEN <<"[data-test='", e.data_test, "']">>
     ELSE IF e.data_testid # "" THEN <<"[data-testid='", e.data_testid, "']">>
     ELSE IF e.name # "" THEN <<e.tag, "[name='", e.name, "']">>
     ELSE IF e.tag \in {"input", "textarea"} /\ e.placeholder # ""
       THEN <<e.tag, "[placeholder='", e.placeholder, "']">>
     ELSE IF /\ e.class # << >>
             /\ first_class # << >>
             /\ first_class[1] \notin {"ng-", "ui-"}
       THEN <<e.tag, ".">> \o first_class
     ELSE IF text # << >> /\ Len(text) < TextLimit
       THEN <<e.tag, ":contains('">> \o EscapeQuotes(text) \o <<"')">>
     ELSE <<e.tag>>

InitLocator ==
  /\ mode = "locator"
  /\ Constructed
  /\ max_pages = 0 /\ max_depth = 0 /\ start_url = Home
  /\ arg \in LocatorUniverse
  /\ ret = NotCalled

CallGenerateCssSelector ==
  /\ mode = "locator" /\ ~Called
  /\ ret' = <<generate_css_selector(arg)>>
  /\ UNCHANGED <<mode, arg, object_vars>>

NextLocator == CallGenerateCssSelector

SpecLocator == InitLocator /\ [][NextLocator]_vars

\* the rules of the chain that come before the class rule do not apply
NoAttributeRule(e) ==
  /\ e.id = "" /\ e.data_test = "" /\ e.data_testid = "" /\ e.name = ""
  /\ ~(e.tag \in {"input", "textarea"} /\ e.placeholder # "")

\* the first class token exists and is not reserved
UsableClass(e) ==
  \E k \in 1..Len(e.class) :
    /\ \A j \in 1..(k - 1) : e.class[j] = " "
    /\ e.class[k] \notin {" ", "ng-", "ui-"}

\* the visible text without the white space around it
TextLength(e) ==
  Cardinality({k \in 1..Len(e.text) :
    /\ \E i \in 1..k : e.text[i] # " "
    /\ \E j \in k..Len(e.text) : e.text[j] # " "})

IsClassForm(sel) == Len(sel) >= 2 /\ sel[2] = "."
IsTextForm(sel) == Len(sel) >= 2 /\ sel[2] = ":contains('"

\* C14: the selector is the result of the first applicable rule of the
\* chain id, data-test, data-testid, name, placeholder (input and textarea),
\* first class token unless reserved, text shorter than 50, bare tag; it is
\* never empty.
Thm_C14 ==
  (mode = "locator" /\ Called) =>
    LET e == arg IN
    /\ Ret # << >> /\ \A i \in 1..Len(Ret) : Ret[i] # ""
    /\ e.id # "" => Ret = <<"#", e.id>>
    /\ (e.id = "" /\ e.data_test # "")
         => Ret = <<"[data-test='", e.data_test, "']">>
    /\ (e.id = "" /\ e.data_test = "" /\ e.data_testid # "")
         => Ret = <<"[data-testid='", e.data_testid, "']">>
    /\ (e.id = "" /\ e.data_test = "" /\ e.data_testid = "" /\ e.name # "")
         => Ret = <<e.tag, "[name='", e.name, "']">>
    /\ (/\ e.id = "" /\ e.data_test = "" /\ e.data_testid = "" /\ e.name = ""
        /\ e.tag \in {"input", "textarea"} /\ e.placeholder # "")
         => Ret = <<e.tag, "[placeholder='", e.placeholder, "']">>
    /\ (NoAttributeRule(e) /\ UsableClass(e))
         => /\ IsClassForm(Ret) /\ Ret[1] = e.tag
            /\ Ret[3] \in {e.class[k] : k \in 1..Len(e.class)}
    /\ (NoAttributeRule(e) /\ ~UsableClass(e))
         => /\ ~IsClassForm(Ret)
            /\ IsTextForm(Ret) <=> TextLength(e) \in 1..(TextLimit - 1)
            /\ ~IsTextForm(Ret) => Ret = <<e.tag>>

\* no attribute rule applies, the first class token is reserved and the
\* text has exactly 50 characters: the selector is the bare tag
Wit_C14 ==
  /\ mode = "locator" /\ Called
  /\ NoAttributeRule(arg)
  /\ arg.class # << >> /\ ~UsableClass(arg)
  /\ TextLength(arg) = TextLimit
  /\ Ret = <<arg.tag>>

\* ------------------------------------ EnhancedAnalyzer.generate_user_flows
MaxNodes == 5
FewFields == 2
MaxFormFields == 5
MaxNavLinks == 5

\* A DOM node as the analyzer reads it.  The text of a node is one piece.
Node(tag, id, type, name, placeholder, text, y) ==
  [tag |-> tag, id |-> id, type |-> type, name |-> name,
   placeholder |-> placeholder, text |-> text, y |-> y,
   role |-> "", class |-> << >>, parent |-> "div", data_test |-> "",
   data_testid |-> "", displayed |-> "yes"]

UserInput == Node("input", "user", "text", "", "", << >>, 10)
PwInput == Node("input", "pw", "password", "", "", << >>, 20)
ZipInput == Node("input", "", "number", "zip", "", << >>, 30)
EmailArea == Node("textarea", "", "", "", "Email", << >>, 35)
LoginButton == Node("button", "", "", "", "", <<"Log In">>, 40)
CancelButton == Node("button", "", "", "", "", <<"Cancel">>, 5)
SubmitInput == Node("input", "", "submit", "", "", << >>, 50)
NavLink == Node("a", "", "", "", "", <<"Home">>, 0)
CountrySelect == Node("select", "", "", "country", "", << >>, 25)

NodeKinds == {UserInput, PwInput, ZipInput, EmailArea, LoginButton,
              CancelButton, SubmitInput, NavLink, CountrySelect}

\* the outcomes of is_displayed() on a node: True, False, an exception of
\* the automation layer (a stale reference), or True followed by an
\* exception in a later access to the node (an attribute, the geometry)
DisplayOutcomes == {"yes", "no", "raises", "raises_later"}

\* lines 157-191: None is the empty sequence, a record a sequence of length 1
extract_element_data(n) ==
  IF n.displayed # "yes" THEN << >>
  ELSE <<[tag_name |-> n.tag,
          text |-> Strip(n.text),
          attributes |-> [id |-> n.id, type |-> n.type, name |-> n.name,
                          placeholder |-> n.placeholder],
          y |-> n.y,
          element_type |-> categorize_element_enhanced(n),
          css_selector |-> generate_css_selector(n)]>>

\* lines 135-138: the records of the nodes of a list, in the order of the list
RECURSIVE ExtractAll(_)
ExtractAll(nodes) ==
  IF nodes = << >> THEN << >>
  ELSE extract_element_data(Head(nodes)) \o ExtractAll(Tail(nodes))

NoValue == "<no value>"
Step(e, action, value) ==
  [element |-> e.css_selector, action |-> action, value |-> value]

SetMax(S) == CHOOSE x \in S : \A y \in S : y <= x
SetMin(S) == CHOOSE x \in S : \A y \in S : x <= y

\* line 415
IsPasswordField(f) ==
  \/ f.attributes.type = "password"
  \/ HasKeyword(<<f.attributes.name>>, {"password"})
  \/ HasKeyword(<<f.attributes.placeholder>>, {"password"})

UsernameTerms == {"user", "email", "name", "login"}

\* a username test that ignores the type of the field
IsUsernameField_keywords_only(f) ==
  /\ ~IsPasswordField(f)
  /\ \/ HasKeyword(<<f.attributes.name>>, UsernameTerms)
     \/ HasKeyword(<<f.attributes.placeholder>>, UsernameTerms)

\* lines 419-421, the elif branch
IsUsernameField(f) ==
  /\ ~IsPasswordField(f)
  /\ \/ f.attributes.type \in {"text", "email"}
     \/ HasKeyword(<<f.attributes.name>>, UsernameTerms)
     \/ HasKeyword(<<f.attributes.placeholder>>, UsernameTerms)

LoginTerms == {"log in", "login", "sign in", "signin", "submit"}

\* line 428
IsLoginButton(b) == HasKeyword(b.text, LoginTerms)

\* a flow emitted without a password field
identify_login_flow_no_password(input_fields, buttons) ==
  LET users == {i \in 1..Len(input_fields) : IsUsernameField(input_fields[i])}
      logins == {i \in 1..Len(buttons) : IsLoginButton(buttons[i])}
  IN IF users # {} /\ logins # {}
     THEN <<[name |-> "User Authentication",
             steps |-> <<Step(input_fields[SetMax(users)], "input",
                              "standard_user"),
                         Step(buttons[SetMin(logins)], "click", NoValue)>>]>>
     ELSE << >>

\* lines 404-461; None is the empty sequence, a flow a sequence of length 1
identify_login_flow(input_fields, buttons) ==
  LET users == {i \in 1..Len(input_fields) : IsUsernameField(input_fields[i])}
      passwords ==
        {i \in 1..Len(input_fields) : IsPasswordField(input_fields[i])}
      logins == {i \in 1..Len(buttons) : IsLoginButton(buttons[i])}
  IN IF users # {} /\ passwords # {} /\ logins # {}
     THEN <<[name |-> "User Authentication",
             steps |-> <<Step(input_fields[SetMax(users)], "input",
                              "standard_user"),
                         Step(input_fields[SetMax(passwords)], "input",
                              "secret_sauce"),
                         Step(buttons[SetMin(logins)], "click", NoValue)>>]>>
     ELSE << >>

SubmitTerms == {"submit", "save", "send", "create", "add"}

\* lines 486-487
IsSubmitButton(b) ==
  \/ b.text # << >> /\ HasKeyword(b.text, SubmitTerms)
  \/ b.attributes.type = "submit"

\* lines 482-500: the index of the submit button among the buttons
submit_button(input_fields, buttons) ==
  LET named == {i \in 1..Len(buttons) : IsSubmitButton(buttons[i])}
      input_bottom ==
        SetMax({input_fields[i].y : i \in 1..Len(input_fields)})
      candidates == {i \in 1..Len(buttons) : buttons[i].y > input_bottom}
      lowest == {i \in candidates :
                   \A j \in candidates : buttons[i].y <= buttons[j].y}
  IN IF named # {} THEN SetMin(named)
     ELSE IF candidates # {} THEN SetMin(lowest)
     ELSE Len(buttons)

\* lines 517-525
test_value(f) ==
  IF f.attributes.type = "email" \/ HasKeyword(<<f.attributes.name>>, {"email"})
    THEN "test@example.com"
  ELSE IF \/ HasKeyword(<<f.attributes.name>>, {"name"})
          \/ HasKeyword(<<f.attributes.placeholder>>, {"name"})
    THEN "Test User"
  ELSE IF \/ HasKeyword(<<f.attributes.name>>, {"phone"})
          \/ HasKeyword(<<f.attributes.placeholder>>, {"phone"})
    THEN "555-123-4567"
  ELSE IF HasKeyword(<<f.attributes.name>>, {"zip", "postal"}) THEN "12345"
  ELSE "Test input"

\* a threshold that lets a list of two input fields through
identify_form_flow_le1(input_fields, buttons) ==
  IF input_fields = << >> \/ buttons = << >> THEN << >>
  ELSE IF Len(input_fields) <= FewFields - 1 THEN << >>
  ELSE LET first == SubSeq(input_fields, 1,
                           IF Len(input_fields) < MaxFormFields
                           THEN Len(input_fields) ELSE MaxFormFields)
       IN <<[name |-> "Form Submission",
             steps |-> [i \in 1..Len(first) |->
                          Step(first[i], "input", test_value(first[i]))]
                       \o <<Step(buttons[submit_button(input_fields, buttons)],
                                 "click", NoValue)>>]>>

\* a flow with an input step for every field of the list
identify_form_flow_all_fields(input_fields, buttons) ==
  IF input_fields = << >> \/ buttons = << >> THEN << >>
  ELSE IF Len(input_fields) <= FewFields THEN << >>
  ELSE <<[name |-> "Form Submission",
          steps |-> [i \in 1..Len(input_fields) |->
                       Step(input_fields[i], "input",
                            test_value(input_fields[i]))]
                    \o <<Step(buttons[submit_button(input_fields, buttons)],
                              "click", NoValue)>>]>>

\* lines 474-545
identify_form_flow(input_fields, buttons) ==
  IF input_fields = << >> \/ buttons = << >> THEN << >>
  ELSE IF Len(input_fields) <= FewFields THEN << >>
  ELSE LET first == SubSeq(input_fields, 1,
                           IF Len(input_fields) < MaxFormFields
                           THEN Len(input_fields) ELSE MaxFormFields)
       IN <<[name |-> "Form Submission",
             steps |-> [i \in 1..Len(first) |->
                          Step(first[i], "input", test_value(first[i]))]
                       \o <<Step(buttons[submit_button(input_fields, buttons)],
                                 "click", NoValue)>>]>>

\* insertion of e into a list sorted by y, after the entries with the same y
RECURSIVE InsertByY(_, _)
InsertByY(sorted, e) ==
  IF sorted = << >> THEN <<e>>
  ELSE IF e.y < Head(sorted).y THEN <<e>> \o sorted
  ELSE <<Head(sorted)>> \o InsertByY(Tail(sorted), e)

\* sorted(links, key=lambda x: x["location"]["y"]), a stable sort
RECURSIVE SortByY(_)
SortByY(els) ==
  IF els = << >> THEN << >>
  ELSE InsertByY(SortByY(SubSeq(els, 1, Len(els) - 1)), els[Len(els)])

\* a flow on the first links of the list, without the sort
navigation_flow_unsorted(links) ==
  IF links = << >> THEN << >>
  ELSE LET top_links == SubSeq(links, 1, IF Len(links) < MaxNavLinks
                                         THEN Len(links) ELSE MaxNavLinks)
       IN <<[name |-> "Navigation",
             steps |-> [i \in 1..Len(top_links) |->
                          Step(top_links[i], "click", NoValue)]]>>

\* lines 371-389
navigation_flow(links) ==
  IF links = << >> THEN << >>
  ELSE LET sorted == SortByY(links)
           top_links == SubSeq(sorted, 1, IF Len(sorted) < MaxNavLinks
                                          THEN Len(sorted) ELSE MaxNavLinks)
       IN <<[name |-> "Navigation",
             steps |-> [i \in 1..Len(top_links) |->
                          Step(top_links[i], "click", NoValue)]]>>

\* lines 353-356
InputFieldsOf(elements) ==
  SelectSeq(elements,
            LAMBDA e : e.element_type \in {<<"input_field">>, <<"text_area">>})
ButtonsOf(elements) ==
  SelectSeq(elements,
            LAMBDA e : e.element_type \in {<<"button">>, <<"submit">>})
LinksOf(elements) ==
  SelectSeq(elements, LAMBDA e : e.element_type = <<"link">>)

\* the form flow appended before the login flow
generate_user_flows_form_first(elements) ==
  IF elements = << >> THEN << >>
  ELSE identify_form_flow(InputFieldsOf(elements), ButtonsOf(elements))
         \o identify_login_flow(InputFieldsOf(elements), ButtonsOf(elements))
         \o navigation_flow(LinksOf(elements))

\* lines 349-391
generate_user_flows(elements) ==
  IF elements = << >> THEN << >>
  ELSE identify_login_flow(InputFieldsOf(elements), ButtonsOf(elements))
         \o identify_form_flow(InputFieldsOf(elements), ButtonsOf(elements))
         \o navigation_flow(LinksOf(elements))

\* the pages: lists of distinct nodes
Pages ==
  {p \in SeqUpTo(NodeKinds, MaxNodes) :
     \A i, j \in 1..Len(p) : p[i] = p[j] => i = j}

InitFlows ==
  /\ mode = "flows"
  /\ Constructed
  /\ max_pages = 0 /\ max_depth = 0 /\ start_url = Home
  /\ arg \in Pages
  /\ ret = NotCalled

\* lines 628-631 of analyze_and_generate: the records of the nodes found,
\* then generate_user_flows; the two detector results it calls for are kept
CallGenerateUserFlows ==
  /\ mode = "flows" /\ ~Called
  /\ LET elements == ExtractAll(arg) IN
       ret' = <<[elements |-> elements,
                 login_flow |-> identify_login_flow(InputFieldsOf(elements),
                                                    ButtonsOf(elements)),
                 form_flow |-> identify_form_flow(InputFieldsOf(elements),
                                                  ButtonsOf(elements)),
                 flows |-> generate_user_flows(elements)]>>
  /\ UNCHANGED <<mode, arg, object_vars>>

NextFlows == CallGenerateUserFlows

SpecFlows == InitFlows /\ [][NextFlows]_vars

\* the groups generate_user_flows formed in the call
FlowInputs == InputFieldsOf(Ret.elements)
FlowButtons == ButtonsOf(Ret.elements)
FlowLinks == LinksOf(Ret.elements)

\* the three roles as the specification words them
QualifiesPassword(f) ==
  \/ f.attributes.type = "password"
  \/ HasKeyword(<<f.attributes.name>>, {"password"})
  \/ HasKeyword(<<f.attributes.placeholder>>, {"password"})
QualifiesUsername(f) ==
  \/ f.attributes.type \in {"text", "email"}
  \/ HasKeyword(<<f.attributes.name>>, {"user", "email", "name", "login"})
  \/ HasKeyword(<<f.attributes.placeholder>>,
                {"user", "email", "name", "login"})
QualifiesLogin(b) ==
  HasKeyword(b.text, {"log in", "login", "sign in", "signin", "submit"})

\* C15: the login detector returns no flow when no element qualifies for
\* one of the three roles, and a flow it returns has exactly the steps
\* input username standard_user, input password secret_sauce, click login
\* button, in that order.
Thm_C15 ==
  (mode = "flows" /\ Called) =>
    /\ (\/ ~\E i \in 1..Len(FlowInputs) : QualifiesUsername(FlowInputs[i])
        \/ ~\E i \in 1..Len(FlowInputs) : QualifiesPassword(FlowInputs[i])
        \/ ~\E i \in 1..Len(FlowButtons) : QualifiesLogin(FlowButtons[i]))
         => Ret.login_flow = << >>
    /\ Ret.login_flow # << >> =>
         /\ Len(Ret.login_flow) = 1
         /\ \E u, p \in 1..Len(FlowInputs) : \E b \in 1..Len(FlowButtons) :
              /\ QualifiesUsername(FlowInputs[u])
              /\ QualifiesPassword(FlowInputs[p])
              /\ QualifiesLogin(FlowButtons[b])
              /\ Ret.login_flow[1].steps =
                   <<[element |-> FlowInputs[u].css_selector,
                      action |-> "input", value |-> "standard_user"],
                     [element |-> FlowInputs[p].css_selector,
                      action |-> "input", value |-> "secret_sauce"],
                     [element |-> FlowButtons[b].css_selector,
                      action |-> "click", value |-> NoValue]>>

Wit_C15 ==
  /\ mode = "flows" /\ Called
  /\ Ret.login_flow # << >>
  /\ Len(FlowInputs) >= 3
  /\ Len(FlowButtons) >= 2

\* the page of the scenario, in any order of its three nodes
LoginPage ==
  /\ Len(arg) = 3
  /\ {arg[i] : i \in 1..3} = {UserInput, PwInput, LoginButton}

\* C16: for a page with exactly a text input with id user, a password input
\* with id pw and a button with text Log In, generate_user_flows returns
\* exactly one flow, User Authentication, with 3 steps located by #user, #pw
\* and the button's locator; the form and navigation detectors add nothing.
Thm_C16 ==
  (mode = "flows" /\ Called /\ LoginPage) =>
    /\ Len(Ret.flows) = 1
    /\ Ret.flows[1].name = "User Authentication"
    /\ [i \in 1..Len(Ret.flows[1].steps) |-> Ret.flows[1].steps[i].element]
         = << <<"#", "user">>, <<"#", "pw">>,
              <<"button", ":contains('", "Log In", "')">> >>
    /\ Ret.form_flow = << >>
    /\ FlowLinks = << >>

Wit_C16 ==
  /\ mode = "flows" /\ Called /\ LoginPage
  /\ arg[1] = LoginButton
  /\ Len(Ret.flows) = 1

\* C17: the form detector emits no flow when the list has 2 or fewer input
\* fields, whatever the buttons, and emits one when there are exactly 3
\* input fields and a button.
Thm_C17 ==
  (mode = "flows" /\ Called) =>
    /\ Len(FlowInputs) <= 2 => Ret.form_flow = << >>
    /\ (Len(FlowInputs) = 3 /\ FlowButtons # << >>) => Len(Ret.form_flow) = 1

Wit_C17 ==
  /\ mode = "flows" /\ Called
  /\ Len(FlowInputs) = 3
  /\ Len(FlowButtons) = 1
  /\ Len(Ret.form_flow) = 1

FlowOrder == <<"User Authentication", "Form Submission", "Navigation">>
FlowRank(name) == CHOOSE k \in 1..3 : FlowOrder[k] = name
FlowNames == {Ret.flows[i].name : i \in 1..Len(Ret.flows)}

\* C19: generate_user_flows returns 0 to 3 flows, at most one per detector,
\* in the order User Authentication, Form Submission, Navigation, and each
\* flow is present exactly when its own detector fires.
Thm_C19 ==
  (mode = "flows" /\ Called) =>
    /\ Len(Ret.flows) \in 0..3
    /\ \A i \in 1..Len(Ret.flows) :
         \E k \in 1..3 : Ret.flows[i].name = FlowOrder[k]
    /\ \A i, j \in 1..Len(Ret.flows) :
         i < j => FlowRank(Ret.flows[i].name) < FlowRank(Ret.flows[j].name)
    /\ "User Authentication" \in FlowNames <=> Ret.login_flow # << >>
    /\ "Form Submission" \in FlowNames <=> Ret.form_flow # << >>
    /\ "Navigation" \in FlowNames <=> FlowLinks # << >>

Wit_C19 ==
  /\ mode = "flows" /\ Called
  /\ Len(Ret.flows) = 3

\* ------------------------------------------------ extraction by selectors
MaxDomNodes == 2

Sel(kind, value) == [kind |-> kind, value |-> value]

\* element_parser.py lines 33-37
element_selectors ==
  <<Sel("tag", "a"), Sel("tag", "button"), Sel("tag", "input"),
    Sel("tag", "select"), Sel("tag", "textarea"), Sel("role", "button"),
    Sel("role", "link"), Sel("role", "checkbox"), Sel("role", "radio")>>

\* enhanced_analyzer.py lines 36-40
interactive_selectors ==
  <<Sel("tag", "a"), Sel("tag", "button"), Sel("tag", "input"),
    Sel("tag", "select"), Sel("tag", "textarea"), Sel("role", "button"),
    Sel("role", "link"), Sel("role", "checkbox"), Sel("role", "radio"),
    Sel("role", "tab")>>

\* a node is in the result of the query for a selector
Matches(n, sel) ==
  IF sel.kind = "tag" THEN n.tag = sel.value ELSE n.role = sel.value

DomTags == {"button", "div"}
DomRoles == {"", "button", "tab"}
DomShapes == [tag : DomTags, role : DomRoles, displayed : DisplayOutcomes]

\* the documents: the i-th node in document order has the id i
DomPages ==
  {[i \in 1..Len(p) |->
      [Node(p[i].tag, ToString(i), "", "", "", << >>, 0)
         EXCEPT !.role = p[i].role, !.displayed = p[i].displayed]] :
   p \in SeqUpTo(DomShapes, MaxDomNodes)}

\* the selectors whose query raises
FailingSelectors == {{}, {Sel("tag", "button")}, {Sel("role", "button")}}

ExtractInputs ==
  [cls : {"EnhancedAnalyzer"}, skip_hidden : {TRUE}, failing : FailingSelectors,
   nodes : DomPages]
  \cup [cls : {"ElementParser"}, skip_hidden : BOOLEAN,
        failing : FailingSelectors, nodes : DomPages]

\* element_parser.py lines 88-138
parser_extract_element_data(n, skip_hidden) ==
  IF n.displayed \in {"raises", "raises_later"} THEN << >>
  ELSE IF skip_hidden /\ n.displayed = "no" THEN << >>
  ELSE <<[tag_name |-> n.tag,
          attributes |-> [id |-> n.id, role |-> n.role],
          is_displayed |-> n.displayed = "yes",
          element_type |-> categorize_element_parser(n)]>>

ElementData(c, n) ==
  IF c.cls = "ElementParser" THEN parser_extract_element_data(n, c.skip_hidden)
  ELSE extract_element_data(n)

\* an inner loop that the first node whose access raises brings to its end
RECURSIVE ElementsData_abort(_, _)
ElementsData_abort(c, elements) ==
  IF elements = << >> THEN << >>
  ELSE IF Head(elements).displayed \in {"raises", "raises_later"} THEN << >>
  ELSE ElementData(c, Head(elements)) \o ElementsData_abort(c, Tail(elements))

\* the inner loop: the records of the nodes one query returned
RECURSIVE ElementsData(_, _)
ElementsData(c, elements) ==
  IF elements = << >> THEN << >>
  ELSE ElementData(c, Head(elements)) \o ElementsData(c, Tail(elements))

\* the query of one selector and its except clause
SelectorData(c, sel) ==
  IF sel \in c.failing THEN << >>
  ELSE ElementsData(c, SelectSeq(c.nodes, LAMBDA n : Matches(n, sel)))

RecordedIds(records) == {records[i].attributes.id : i \in 1..Len(records)}

\* an extraction that keeps one record per node
RECURSIVE ExtractSelectors_dedup(_, _)
ExtractSelectors_dedup(c, selectors) ==
  IF selectors = << >> THEN << >>
  ELSE LET before ==
             ExtractSelectors_dedup(c, SubSeq(selectors, 1, Len(selectors) - 1))
       IN before \o SelectSeq(SelectorData(c, selectors[Len(selectors)]),
                              LAMBDA r : r.attributes.id \notin RecordedIds(before))

\* the outer loop of element_parser.py lines 58-73 and of
\* enhanced_analyzer.py lines 130-143
RECURSIVE ExtractSelectors(_, _)
ExtractSelectors(c, selectors) ==
  IF selectors = << >> THEN << >>
  ELSE ExtractSelectors(c, SubSeq(selectors, 1, Len(selectors) - 1))
         \o SelectorData(c, selectors[Len(selectors)])

extract_elements(c) == ExtractSelectors(c, element_selectors)
find_interactive_elements(c) == ExtractSelectors(c, interactive_selectors)

InitExtract ==
  /\ mode = "extract"
  /\ Constructed
  /\ max_pages = 0 /\ max_depth = 0 /\ start_url = Home
  /\ arg \in ExtractInputs
  /\ ret = NotCalled

CallExtractElements ==
  /\ mode = "extract" /\ ~Called
  /\ arg.cls = "ElementParser"
  /\ ret' = <<extract_elements(arg)>>
  /\ UNCHANGED <<mode, arg, object_vars>>

CallFindInteractiveElements ==
  /\ mode = "extract" /\ ~Called
  /\ arg.cls = "EnhancedAnalyzer"
  /\ ret' = <<find_interactive_elements(arg)>>
  /\ UNCHANGED <<mode, arg, object_vars>>

NextExtract == CallExtractElements \/ CallFindInteractiveElements

SpecExtract == InitExtract /\ [][NextExtract]_vars

ConfiguredSelectors ==
  IF arg.cls = "ElementParser" THEN element_selectors ELSE interactive_selectors

\* the node gets a record from a query that returns it
Recorded(n) ==
  \/ n.displayed = "yes"
  \/ n.displayed = "no" /\ arg.cls = "ElementParser" /\ ~arg.skip_hidden

\* the selectors, by position, whose query returned the i-th node
MatchedSelectors(i) ==
  {s \in 1..Len(ConfiguredSelectors) :
     /\ ConfiguredSelectors[s] \notin arg.failing
     /\ Matches(arg.nodes[i], ConfiguredSelectors[s])}

\* the (selector, node) pairs that give a record
RecordPairs ==
  {q \in (1..Len(ConfiguredSelectors)) \X (1..Len(arg.nodes)) :
     q[1] \in MatchedSelectors(q[2]) /\ Recorded(arg.nodes[q[2]])}

\* the place of a pair in selector order, document order within a selector
PairRank(q) ==
  Cardinality({r \in RecordPairs :
                 r[1] < q[1] \/ (r[1] = q[1] /\ r[2] <= q[2])})

\* C18: a displayed node that k of the configured selectors returned has
\* exactly k records in the extracted list, one per selector, at the places
\* that selector order gives them.
Thm_C18 ==
  (mode = "extract" /\ Called) =>
    \A i \in 1..Len(arg.nodes) :
      arg.nodes[i].displayed = "yes" =>
        /\ Cardinality({j \in 1..Len(Ret) :
                          Ret[j].attributes.id = arg.nodes[i].id})
             = Cardinality(MatchedSelectors(i))
        /\ \A s \in MatchedSelectors(i) :
             /\ PairRank(<<s, i>>) <= Len(Ret)
             /\ Ret[PairRank(<<s, i>>)].attributes.id = arg.nodes[i].id

Wit_C18 ==
  /\ mode = "extract" /\ Called
  /\ arg.cls = "EnhancedAnalyzer"
  /\ arg.failing = {}
  /\ Len(arg.nodes) = 2
  /\ arg.nodes[1].tag = "button" /\ arg.nodes[1].role = "button"
  /\ arg.nodes[1].displayed = "yes"
  /\ Cardinality({j \in 1..Len(Ret) : Ret[j].attributes.id = "1"}) = 2
  /\ Len(Ret) = 4

\* ------------------------------------------------------- order of the loads
RECURSIVE IsSubseq(_, _)
IsSubseq(a, b) ==
  IF a = << >> THEN TRUE
  ELSE IF b = << >> THEN FALSE
  ELSE IF Head(a) = Head(b) THEN IsSubseq(Tail(a), Tail(b))
  ELSE IsSubseq(a, Tail(b))

\* the URLs handed to driver.get while the crawl was at depth d, in order
LoadsAt(d) ==
  LET at == SelectSeq(loads, LAMBDA r : r.depth = d)
  IN [i \in 1..Len(at) |-> at[i].url]

\* C20: the loads of the URLs of one level all come before the loads of the
\* next level, and within a level the URLs are loaded in the order in which
\* they were appended to the level's list.
Thm_C20 ==
  mode = "crawl" =>
    /\ \A i, j \in 1..Len(loads) : i < j => loads[i].depth <= loads[j].depth
    /\ \A d \in Depths : IsSubseq(LoadsAt(d), depth_urls[d])

Wit_C20 ==
  /\ mode = "crawl"
  /\ Len(loads) = 3
  /\ loads[1].depth = 0 /\ loads[2].depth = 1 /\ loads[3].depth = 1
  /\ loads[2].url # loads[3].url

\* ------------------------------------------------- loads and visited_urls
\* the calls of driver.get that returned
Fetched(i) == loads[i].outcome # "load_failed"

\* C21: a URL that is in visited_urls is never loaded again, so every URL
\* is fetched with success at most once and its records are appended to
\* the result at most once, in one piece.
Thm_C21 ==
  mode = "crawl" =>
    /\ \A i, j \in 1..Len(loads) :
         (i < j /\ Fetched(i)) => loads[j].url # loads[i].url
    /\ visited_urls = {loads[i].url : i \in {k \in 1..Len(loads) : Fetched(k)}}
    /\ \A i, j \in 1..Len(all_elements_data) :
         all_elements_data[i] = all_elements_data[j] =>
           /\ \A k \in i..j : all_elements_data[k] = all_elements_data[i]
           /\ j - i < MaxElems

Wit_C21 ==
  /\ mode = "crawl" /\ pc = "for"
  /\ Len(urls_at_current_depth) = 2
  /\ urls_at_current_depth[1] = urls_at_current_depth[2]
  /\ url_idx = 3
  /\ Len(loads) = 2
  /\ loads[2].url = urls_at_current_depth[1]
  /\ loads[2].outcome = "ok"
  /\ Len(all_elements_data) = 2

\* ------------------------------------------------------------ termination
\* the levels whose for loop has been started
LevelsProcessed ==
  IF pc = "for" THEN current_depth + 1 ELSE current_depth

\* what is left of start_crawl: the phase, the levels not yet finished, the
\* loop header still to pass, the URLs of the level still to take
Remaining ==
  IF pc = "idle" THEN <<4, 0, 0, 0>>
  ELSE IF pc = "setup" THEN <<3, 0, 0, 0>>
  ELSE IF pc = "while" THEN <<2, max_depth + 1 - current_depth, 1, 0>>
  ELSE IF pc = "for"
    THEN <<2, max_depth + 1 - current_depth, 0,
           Len(urls_at_current_depth) + 1 - url_idx>>
  ELSE IF pc = "finally" THEN <<1, 0, 0, 0>>
  ELSE <<0, 0, 0, 0>>

\* the lexicographic order of two such tuples
RECURSIVE LexLess(_, _)
LexLess(a, b) ==
  /\ a # << >>
  /\ \/ Head(a) < Head(b)
     \/ Head(a) = Head(b) /\ LexLess(Tail(a), Tail(b))

\* C22: every crawl ends (each step makes what is left of start_crawl
\* smaller, what is left is never negative, and only a finished call has no
\* next step), start_crawl processes at most max_depth + 1 levels, and no
\* page is loaded at or after a level whose list is empty.
Thm_C22 ==
  /\ [](mode = "crawl" =>
          /\ LevelsProcessed <= max_depth + 1
          /\ \A d \in Depths :
               (d <= current_depth /\ depth_urls[d] = << >>) =>
                 \A i \in 1..Len(loads) : loads[i].depth < d
          /\ \A k \in 1..4 : Remaining[k] \in Nat
          /\ pc # "done" => ENABLED Next)
  /\ [][mode = "crawl" => LexLess(Remaining', Remaining)]_vars

Wit_C22 ==
  /\ mode = "crawl" /\ pc = "done"
  /\ result = "returned"
  /\ max_depth = 1
  /\ current_depth = 2
  /\ depth_urls[1] = << >>
  /\ Len(loads) = 1

\* ------------------------------------------------------- the form detector
\* the elements the specification counts toward the threshold of the form
InputLike ==
  SelectSeq(Ret.elements,
            LAMBDA e : e.element_type \in
                         {<<"input_field">>, <<"text_area">>, <<"dropdown">>})

\* C23: the threshold of 3 of the form detector counts the elements typed
\* input_field, text_area or dropdown: a list with 3 of them and a button
\* yields a Form Submission flow (2 input fields, 1 dropdown and a submit
\* button for instance).
CE_C23 ==
  (mode = "flows" /\ Called) =>
    ((Len(InputLike) >= 3 /\ FlowButtons # << >>) =>
       /\ Len(Ret.form_flow) = 1
       /\ Ret.form_flow[1].name = "Form Submission")

\* ------------------------------------------ forms of many fields and buttons
MaxFields == 6
MaxButtons == 3

NextButton == Node("button", "", "", "", "", <<"Next">>, 60)
SaveButton == Node("button", "", "", "", "", <<"Save">>, 20)

ButtonKinds ==
  {CancelButton, LoginButton, SubmitInput, NextButton, SaveButton}

\* the y-coordinates of a text input: above or below some of the buttons
FieldYs == {10, 45}

\* up to MaxFields text inputs, the i-th with the id i
FieldLists ==
  {[i \in 1..Len(ys) |-> Node("input", ToString(i), "text", "", "", << >>, ys[i])] :
   ys \in SeqUpTo(FieldYs, MaxFields)}

\* up to MaxButtons distinct buttons
ButtonLists ==
  {b \in SeqUpTo(ButtonKinds, MaxButtons) :
     \A i, j \in 1..Len(b) : b[i] = b[j] => i = j}

\* the pages of one form: its fields, then its buttons
FormPages == {f \o b : f \in FieldLists, b \in ButtonLists}

InitForm ==
  /\ mode = "flows"
  /\ Constructed
  /\ max_pages = 0 /\ max_depth = 0 /\ start_url = Home
  /\ arg \in FormPages
  /\ ret = NotCalled

SpecForm == InitForm /\ [][NextFlows]_vars

\* the click step of the form flow is on the button b
ClicksOn(b) ==
  /\ Len(Ret.form_flow) = 1
  /\ Ret.form_flow[1].steps[Len(Ret.form_flow[1].steps)]
       = [element |-> b.css_selector, action |-> "click", value |-> NoValue]

\* rule (a) of the claim
NamedSubmit(b) ==
  \/ HasKeyword(b.text, {"submit", "save", "send", "create", "add"})
  \/ b.attributes.type = "submit"

\* the buttons below the bottommost input field
BelowFields(b) ==
  \A i \in 1..Len(FlowInputs) : b.y > FlowInputs[i].y

\* C24: the submit button of a form flow is (a) the first button whose text
\* contains submit, save, send, create or add or whose type is submit;
\* else (b) of the buttons below the bottommost input field the one
\* positioned lowest, that is with the greatest y; else (c) the last button.
CE_C24 ==
  (mode = "flows" /\ Called /\ Ret.form_flow # << >>) =>
    LET named == {i \in 1..Len(FlowButtons) : NamedSubmit(FlowButtons[i])}
        below == {i \in 1..Len(FlowButtons) : BelowFields(FlowButtons[i])}
    IN IF named # {}
         THEN ClicksOn(FlowButtons[SetMin(named)])
       ELSE IF below # {}
         THEN \E i \in below :
                /\ \A j \in below : FlowButtons[j].y <= FlowButtons[i].y
                /\ ClicksOn(FlowButtons[i])
       ELSE ClicksOn(FlowButtons[Len(FlowButtons)])

\* the smaller of two numbers
Smaller(a, b) == IF a < b THEN a ELSE b

\* C25: with n >= 3 input fields the form detector emits a flow exactly when
\* there is a button or submit element; the flow has min(n, 5) input steps,
\* for the first min(n, 5) input fields in list order, then one click step,
\* which is its last step.
Thm_C25 ==
  (mode = "flows" /\ Called /\ Len(FlowInputs) >= 3) =>
    /\ Ret.form_flow # << >> <=> FlowButtons # << >>
    /\ Ret.form_flow # << >> =>
         LET steps == Ret.form_flow[1].steps
             m == Smaller(Len(FlowInputs), 5)
         IN /\ Len(Ret.form_flow) = 1
            /\ Len(steps) = m + 1
            /\ \A i \in 1..m :
                 /\ steps[i].action = "input"
                 /\ steps[i].element = FlowInputs[i].css_selector
            /\ steps[m + 1].action = "click"
            /\ \E b \in 1..Len(FlowButtons) :
                 steps[m + 1].element = FlowButtons[b].css_selector

Wit_C25 ==
  /\ mode = "flows" /\ Called
  /\ Len(FlowInputs) = 6
  /\ Len(FlowButtons) = 2
  /\ Len(Ret.form_flow) = 1
  /\ Len(Ret.form_flow[1].steps) = 6

\* --------------------------------------------------- pages of many links
MaxAnchors == 6

\* the y-coordinates of a link
LinkYs == {0, 3, 7}

\* up to MaxAnchors links, the i-th with the id i
LinkLists ==
  {[i \in 1..Len(ys) |-> Node("a", ToString(i), "", "", "", <<"Home">>, ys[i])] :
   ys \in SeqUpTo(LinkYs, MaxAnchors)}

\* the links of a page, with or without a button after them
NavPages == {l \o b : l \in LinkLists, b \in {<< >>, <<CancelButton>>}}

InitNav ==
  /\ mode = "flows"
  /\ Constructed
  /\ max_pages = 0 /\ max_depth = 0 /\ start_url = Home
  /\ arg \in NavPages
  /\ ret = NotCalled

SpecNav == InitNav /\ [][NextFlows]_vars

NavFlows == SelectSeq(Ret.flows, LAMBDA f : f.name = "Navigation")

\* the number of links that come before the i-th link when the links are
\* put in ascending y order, equal y in list order
LinksBefore(i) ==
  Cardinality({j \in 1..Len(FlowLinks) :
                 \/ FlowLinks[j].y < FlowLinks[i].y
                 \/ FlowLinks[j].y = FlowLinks[i].y /\ j < i})

\* C26: the navigation flow is emitted exactly when the list has a link; it
\* has min(5, number of links) click steps, on the links with the smallest y
\* in ascending y order, links with equal y in list order.
Thm_C26 ==
  (mode = "flows" /\ Called) =>
    /\ NavFlows # << >> <=> FlowLinks # << >>
    /\ Len(NavFlows) <= 1
    /\ NavFlows # << >> =>
         LET steps == NavFlows[1].steps IN
           /\ Len(steps) = Smaller(5, Len(FlowLinks))
           /\ \A i \in 1..Len(FlowLinks) :
                LinksBefore(i) < 5 =>
                  steps[LinksBefore(i) + 1] =
                    [element |-> FlowLinks[i].css_selector,
                     action |-> "click", value |-> NoValue]

Wit_C26 ==
  /\ mode = "flows" /\ Called
  /\ Len(FlowLinks) = 6
  /\ FlowLinks[1].y = 7 /\ FlowLinks[2].y = 3 /\ FlowLinks[3].y = 3
  /\ FlowLinks[6].y = 0
  /\ Len(NavFlows) = 1
  /\ Len(NavFlows[1].steps) = 5
  /\ NavFlows[1].steps[1].element = FlowLinks[6].css_selector

\* ------------------------------------------- failures below the page level
\* the access to the i-th node raises
NodeRaises(i) == arg.nodes[i].displayed \in {"raises", "raises_later"}

\* the configured selectors, by position, whose query raises
RaisingSelectors ==
  {s \in 1..Len(ConfiguredSelectors) : ConfiguredSelectors[s] \in arg.failing}

\* C27: a node whose access raises and a selector whose query raises cost
\* their own records only: the result holds no record of such a node, and
\* it holds the record of every other node for every other selector that
\* matches it, in the order of the extraction.
Thm_C27 ==
  (mode = "extract" /\ Called) =>
    /\ \A j \in 1..Len(Ret) : \A i \in 1..Len(arg.nodes) :
         Ret[j].attributes.id = arg.nodes[i].id => ~NodeRaises(i)
    /\ Len(Ret) = Cardinality(RecordPairs)
    /\ \A s \in (1..Len(ConfiguredSelectors)) \ RaisingSelectors :
         \A i \in 1..Len(arg.nodes) :
           (/\ ~NodeRaises(i)
            /\ Recorded(arg.nodes[i])
            /\ Matches(arg.nodes[i], ConfiguredSelectors[s])) =>
             Ret[PairRank(<<s, i>>)].attributes.id = arg.nodes[i].id

Wit_C27 ==
  /\ mode = "extract" /\ Called
  /\ Len(arg.nodes) = 2
  /\ NodeRaises(1) /\ arg.nodes[1].tag = "button"
  /\ arg.nodes[2].displayed = "yes"
  /\ arg.nodes[2].tag = "button" /\ arg.nodes[2].role = "button"
  /\ RaisingSelectors # {}
  /\ Len(Ret) = 1
  /\ Ret[1].attributes.id = "2"

\* ------------------------------------------------- scripts/run_crawler.py
MaxCliDepth == 6
MaxFileDepth == 6
DefaultMaxDepth == 2

\* an optional integer: << >> is None or a missing key, <<d>> the integer d
Optional(S) == {<< >>} \cup {<<d>> : d \in S}

\* --depth as argparse parses it, and crawler.max_depth as the file has it
CliInputs ==
  [depth : Optional(-1..MaxCliDepth), file_depth : Optional(0..MaxFileDepth)]

\* Config.set, lines 95-113, on the key crawler.max_depth
config_set(config_depth, value) == <<value>>

\* Config.get('crawler.max_depth', 2), selenium_crawler.py line 128
config_get(config_depth) ==
  IF config_depth = << >> THEN DefaultMaxDepth ELSE config_depth[1]

\* run_crawler.py lines 46-47: "if args.depth:" is false for None and for 0
override_depth(config_depth, depth) ==
  IF depth # << >> /\ depth[1] # 0 THEN config_set(config_depth, depth[1])
  ELSE config_depth

InitCli ==
  /\ mode = "cli"
  /\ Constructed
  /\ max_pages = 0 /\ max_depth = 0 /\ start_url = Home
  /\ arg \in CliInputs
  /\ ret = NotCalled

\* main up to the call of start_crawl: the value start_crawl reads as
\* max_depth
CallMain ==
  /\ mode = "cli" /\ ~Called
  /\ ret' = <<config_get(override_depth(arg.file_depth, arg.depth))>>
  /\ UNCHANGED <<mode, arg, object_vars>>

NextCli == CallMain

SpecCli == InitCli /\ [][NextCli]_vars

\* C28: for every integer d >= 0 given as --depth, the crawl runs with
\* max_depth = d, d = 0 included.
CE_C28 ==
  (mode = "cli" /\ Called /\ arg.depth # << >>) =>
    (arg.depth[1] >= 0 => Ret = arg.depth[1])

\* ------------------------------------------------- the filters at load time
\* the three static filters, as the claim words them
PassesFilters(url) ==
  /\ Contains(extract_domain(url), extract_domain(start_url))
  /\ url # << >> /\ url[1] \in {"http://", "https://"}
  /\ \A k \in 1..Len(excluded_extensions) :
       Lower(url)[Len(url)] # excluded_extensions[k]

\* C29: every URL that start_crawl loads, the start URL included, passes
\* the three static filters, and a start URL that fails one of them gives a
\* crawl without any page load.
Thm_C29 ==
  mode = "crawl" =>
    /\ \A i \in 1..Len(loads) : PassesFilters(loads[i].url)
    /\ ~PassesFilters(start_url) => loads = << >>

Wit_C29 ==
  /\ mode = "crawl" /\ pc = "done"
  /\ Len(loads) = 2
  /\ loads[1].url = start_url
  /\ loads[2].url = PageB

\* ---------------------------------------------------- a crawl of one site
\* the pages of the site and the anchors a page may have
SitePages == {Home, PageA, PageB}
SiteAnchors ==
  {<< >>, <<PageA>>, <<PageB, PageA>>, <<AssetPdf, Home>>}
Sites == [SitePages -> SiteAnchors]

InitSite ==
  /\ mode = "crawl"
  /\ Constructed
  /\ max_pages \in 0..(MaxPagesBound + 2)
  /\ max_depth \in 0..(MaxDepthBound + 1)
  /\ start_url \in {Home, AssetPdf}
  /\ arg \in {<<site>> : site \in Sites}
  /\ ret = NotCalled

NextSite ==
  \/ StartCrawl
  \/ CrawlSetup
  \/ WhileEnter
  \/ WhileExit
  \/ LevelDone
  \/ SkipUrl
  \/ ProcessPage
  \/ CrawlFinally

SpecSite == InitSite /\ [][NextSite]_vars

Site == arg[1]

\* the URLs within d links of the start URL, through pages that pass the
\* filters
RECURSIVE ReachWithin(_)
ReachWithin(d) ==
  IF d = 0 THEN (IF PassesFilters(start_url) THEN {start_url} ELSE {})
  ELSE LET r == ReachWithin(d - 1)
       IN r \cup {v \in SitePages :
                    /\ PassesFilters(v)
                    /\ \E u \in r : \E k \in 1..Len(Site[u]) : Site[u][k] = v}

HasDistance(u) == u \in ReachWithin(Cardinality(SitePages))
Distance(u) ==
  CHOOSE d \in 0..Cardinality(SitePages) :
    /\ u \in ReachWithin(d)
    /\ \A e \in 0..(d - 1) : u \notin ReachWithin(e)

\* every fetch at the depth of the shortest distance; at the end of the
\* crawl, the URLs fetched are those within max_depth
ShortestDistanceCrawl ==
  /\ \A i \in 1..Len(loads) :
       HasDistance(loads[i].url) /\ loads[i].depth = Distance(loads[i].url)
  /\ pc = "done" =>
       \A u \in SitePages :
         u \in visited_urls <=> (HasDistance(u) /\ Distance(u) <= max_depth)

====
